---- MODULE Spec2Model ----
(***************************************************************************)
(* Model of examples/trie_utils.py: the character trie (Trie), its         *)
(* single-pass longest-match split, the prefix enumeration of              *)
(* ExtensionsTrie, and the sorted unique insertion helper.                 *)
(*                                                                         *)
(* A Python str is a sequence of one-character strings; Python offsets are *)
(* 0-based, so text[i] in the source is text[i + 1] here.  A trie node     *)
(* (a nested dict) is identified by the path of keys leading to it from    *)
(* the root dict, the root being the empty path.                           *)
(***************************************************************************)
EXTENDS Integers, Sequences, FiniteSets, Bags, TLC

\* data, _tokens : the fields of the Trie object
\* call, arg     : the call whose result the caller holds ("none" when it
\*                 holds none) and, for a query of the trie, its argument
\* offsets       : the offsets list split handed to cut_text
\* ret           : the value the query returned
\* raised        : the query raised instead of returning
\* token_list, new_token, old_list : the list handed to
\*                 _insert_one_token_to_ordered_list, the token of the last
\*                 call and the list as it was before that call
VARIABLES data, _tokens, call, arg, offsets, ret, raised,
          token_list, new_token, old_list

vars == <<data, _tokens, call, arg, offsets, ret, raised,
          token_list, new_token, old_list>>

listVars == <<token_list, new_token, old_list>>

(* ------------------------------ bounds -------------------------------- *)

Alphabet == {"a", "b"}

\* largest number of non-root nodes the trie is grown to
MaxNodes == 4

\* longest text handed to split
MaxTextLen == 4

\* longest prefix handed to extensions
MaxPrefixLen == 3

\* longest word of a list handed to update
MaxUpdateWord == 1

\* longest token and longest list of the sorted insertion helper
MaxTokenLen == 2

MaxListLen == 3

Strs(n) == UNION {[1..k -> Alphabet] : k \in 0..n}

Words == Strs(MaxNodes)

Texts == Strs(MaxTextLen)

Prefixes == Strs(MaxPrefixLen)

UpdateWords == Strs(MaxUpdateWord)

\* the iterables handed to update: no word, one word, two words
UpdateArgs ==
  {<<>>} \cup {<<w>> : w \in UpdateWords}
         \cup {<<w1, w2>> : w1 \in UpdateWords, w2 \in UpdateWords}

ListTokens == Strs(MaxTokenLen)

(* ------------------------------- Trie --------------------------------- *)

\* self.data = {} : no child key anywhere, no termination key anywhere
EmptyData == [child |-> {}, term |-> <<>>]

\* the state of a Trie object right after the two assignments of __init__
EmptyTrie == [data |-> EmptyData, tokens |-> {}]

\* `char in node` for the node reached by path ptr
HasChar(d, ptr, char) == Append(ptr, char) \in d.child

\* `"" in node` : the node bears the termination key
IsTerminal(d, ptr) == ptr \in DOMAIN d.term

\* ref[char] = {} : a slip that replaces the child by a fresh empty dict
Overwrite(d, ref, char) ==
  LET p == Append(ref, char)
      below(q) == Len(q) >= Len(p) /\ SubSeq(q, 1, Len(p)) = p
  IN [child |-> {q \in d.child : ~below(q)} \cup {p},
      term |-> [q \in {x \in DOMAIN d.term : ~below(x)} |-> d.term[q]]]

\* ref[char] = ref.setdefault(char, {}) : the child is created when absent
\* and left as it is otherwise
SetDefault(d, ref, char) == [d EXCEPT !.child = @ \cup {Append(ref, char)}]

\* ref[""] = ref.get("", 0) + 1 : a slip that counts the insertions
CountTermination(d, ref) ==
  [d EXCEPT !.term = [q \in DOMAIN @ \cup {ref} |->
                        IF q = ref
                        THEN (IF ref \in DOMAIN @ THEN @[ref] + 1 ELSE 1)
                        ELSE @[q]]]

\* ref[self._termination_char] = 1
SetTermination(d, ref) ==
  [d EXCEPT !.term = [q \in DOMAIN @ \cup {ref} |-> IF q = ref THEN 1 ELSE @[q]]]

\* the for loop of add over the characters word[i..], ref being the path
\* walked so far, followed by the assignment of the termination key
RECURSIVE AddWalk(_, _, _, _)
AddWalk(d, ref, word, i) ==
  IF i > Len(word)
  THEN SetTermination(d, ref)
  ELSE AddWalk(SetDefault(d, ref, word[i]), Append(ref, word[i]), word, i + 1)

\* Trie.add
AddOp(t, word) ==
  IF word = <<>>
  THEN t
  ELSE [data |-> AddWalk(t.data, <<>>, word, 1), tokens |-> t.tokens \cup {word}]

\* Trie.update : add every token of the argument in order
RECURSIVE UpdateOp(_, _)
UpdateOp(t, ws) ==
  IF ws = <<>> THEN t ELSE UpdateOp(AddOp(t, Head(ws)), Tail(ws))

(* ---------------------------- Trie.split ------------------------------ *)

\* text[i] of the source, i being a 0-based offset below len(text)
CharAt(text, i) == text[i + 1]

\* text[i:j + 1] : a slice that runs one character too far
SliceInclusive(text, i, j) ==
  SubSeq(text, i + 1, IF j < Len(text) THEN j + 1 ELSE j)

\* text[i:j] of the source
Slice(text, i, j) == SubSeq(text, i + 1, j)

\* a lookahead whose while loop is left out
LookWalkNone(d, text, lookstart, ptr, idx, acc) == acc

\* the while loop of the lookahead: walk the characters text[idx..] down
\* the trie from looktrie_pointer; acc holds start, end and skip, which are
\* overwritten each time the node reached bears the termination key
RECURSIVE LookWalk(_, _, _, _, _, _)
LookWalk(d, text, lookstart, ptr, idx, acc) ==
  IF idx < Len(text) /\ HasChar(d, ptr, CharAt(text, idx))
  THEN LET ptr2 == Append(ptr, CharAt(text, idx))
           idx2 == idx + 1
           acc2 == IF IsTerminal(d, ptr2)
                   THEN [start |-> lookstart, end |-> idx2, skip |-> idx2]
                   ELSE acc
       IN IF idx2 = Len(text)
          THEN acc2
          ELSE LookWalk(d, text, lookstart, ptr2, idx2, acc2)
  ELSE acc

\* one iteration of the lookahead's for loop, for the in-progress state
\* (lookstart, looktrie_pointer): an earlier state is taken to have consumed
\* text[current] already, the state under examination has not
LookOne(d, text, current, st, acc) ==
  LET idx  == IF st.start < acc.start THEN current + 1 ELSE current
      acc1 == [acc EXCEPT !.end = idx]
      acc2 == IF IsTerminal(d, st.ptr)
              THEN [start |-> st.start, end |-> idx, skip |-> idx]
              ELSE acc1
  IN LookWalk(d, text, st.start, st.ptr, idx, acc2)

\* a lookahead that examines the terminal state alone, not the in-progress
\* states that started earlier
LookaheadOwn(d, text, current, states, j, acc) ==
  LET own == CHOOSE k \in 1..Len(states) : states[k].start = acc.start
  IN LookOne(d, text, current, states[own], acc)

\* the lookahead's for loop over states.items() from the j-th entry on; it
\* breaks at the first entry that starts later than the current best start
RECURSIVE Lookahead(_, _, _, _, _, _)
Lookahead(d, text, current, states, j, acc) ==
  IF j > Len(states) \/ states[j].start > acc.start
  THEN acc
  ELSE Lookahead(d, text, current, states, j + 1,
                 LookOne(d, text, current, states[j], acc))

\* states[start] = trie_pointer : an existing key keeps its place in the
\* ordered mapping, a new key goes last
SetState(states, start, ptr) ==
  IF \E k \in 1..Len(states) : states[k].start = start
  THEN [k \in 1..Len(states) |->
          IF states[k].start = start THEN [start |-> start, ptr |-> ptr]
          ELSE states[k]]
  ELSE Append(states, [start |-> start, ptr |-> ptr])

\* for start in to_remove: del states[start]
RECURSIVE RemoveStates(_, _)
RemoveStates(states, to_remove) ==
  IF states = <<>> THEN <<>>
  ELSE IF Head(states).start \in to_remove
       THEN RemoveStates(Tail(states), to_remove)
       ELSE <<Head(states)>> \o RemoveStates(Tail(states), to_remove)

\* the for loop over states.items() of one scan step, from the i-th entry
\* on.  S holds states, offsets, skip and the local end.  A state whose node
\* bears the termination key ends the loop: the lookahead's (start, end) is
\* appended to offsets and states is emptied (reset).  A state that fails on
\* the character stays in states, unadvanced, until the loop is over
RECURSIVE StatesLoop(_, _, _, _, _, _)
StatesLoop(d, text, current, S, i, to_remove) ==
  IF i > Len(S.states)
  THEN [S EXCEPT !.states = RemoveStates(S.states, to_remove)]
  ELSE LET st == S.states[i]
           char == CharAt(text, current)
       IN IF IsTerminal(d, st.ptr)
          THEN LET m == Lookahead(d, text, current, S.states, 1,
                                  [start |-> st.start, end |-> S.end,
                                   skip |-> S.skip])
               IN [states |-> <<>>,
                   offsets |-> S.offsets \o <<m.start, m.end>>,
                   skip |-> m.skip,
                   end |-> m.end]
          ELSE IF HasChar(d, st.ptr, char)
               THEN StatesLoop(d, text, current,
                               [S EXCEPT !.states =
                                  SetState(@, st.start, Append(st.ptr, char))],
                               i + 1, to_remove)
               ELSE StatesLoop(d, text, current, S, i + 1,
                               to_remove \cup {st.start})

\* a scan step that opens a new in-progress state without comparing current
\* with skip
OpenStateBelowSkip(d, text, current, S) ==
  IF HasChar(d, <<>>, CharAt(text, current))
  THEN [S EXCEPT !.states = SetState(@, current, <<CharAt(text, current)>>)]
  ELSE S

\* a new in-progress state is opened at current when the character is a key
\* of the root dict and current is not below skip
OpenState(d, text, current, S) ==
  IF current >= S.skip /\ HasChar(d, <<>>, CharAt(text, current))
  THEN [S EXCEPT !.states = SetState(@, current, <<CharAt(text, current)>>)]
  ELSE S

\* the body of the main loop for one value of current
ScanStep(d, text, current, S) ==
  IF S.skip # 0 /\ current < S.skip
  THEN S
  ELSE OpenState(d, text, current, StatesLoop(d, text, current, S, 1, {}))

\* for current, current_char in enumerate(text)
RECURSIVE MainLoop(_, _, _, _)
MainLoop(d, text, current, S) ==
  IF current >= Len(text) THEN S
  ELSE MainLoop(d, text, current + 1, ScanStep(d, text, current, S))

\* an end-of-input step that cuts at the first in-progress state without
\* asking whether its node bears the termination key
EndStepAny(d, text, states, offs) ==
  IF states = <<>> THEN offs
  ELSE offs \o <<Head(states).start, Len(text)>>

\* the loop after the scan: the first in-progress state, in the order of
\* the mapping, whose node bears the termination key is cut at len(text)
RECURSIVE EndStep(_, _, _, _)
EndStep(d, text, states, offs) ==
  IF states = <<>> THEN offs
  ELSE IF IsTerminal(d, Head(states).ptr)
       THEN offs \o <<Head(states).start, Len(text)>>
       ELSE EndStep(d, text, Tail(states), offs)

\* the offsets list split hands to cut_text.  The local `end` is unbound
\* until the lookahead assigns it; -1 stands for unbound
SplitOffsets(d, text) ==
  LET S == MainLoop(d, text, 0,
                    [states |-> <<>>, offsets |-> <<0>>, skip |-> 0, end |-> -1])
  IN EndStep(d, text, S.states, S.offsets)

\* the for loop of cut_text over offsets[k..]; r holds tokens, start and
\* error.  The start > end branch evaluates `logger`, a name the module
\* never binds, so the call raises there
RECURSIVE CutLoop(_, _, _, _)
CutLoop(text, offs, k, r) ==
  IF k > Len(offs) \/ r.error THEN r
  ELSE LET end == offs[k]
       IN IF r.start > end
          THEN [r EXCEPT !.error = TRUE]
          ELSE IF r.start = end
               THEN CutLoop(text, offs, k + 1, r)
               ELSE CutLoop(text, offs, k + 1,
                            [r EXCEPT !.tokens = Append(@, Slice(text, r.start, end)),
                                      !.start = end])

\* Trie.cut_text
CutText(text, offs) ==
  CutLoop(text, Append(offs, Len(text)), 1,
          [tokens |-> <<>>, start |-> 0, error |-> FALSE])

\* the fragments split returns, and whether it raised instead
SplitOp(d, text) == CutText(text, SplitOffsets(d, text))

(* --------------------------- ExtensionsTrie --------------------------- *)

\* ExtensionsTrie._get_node : walk token[i..] down from node and stop at the
\* first character that is no key of the node reached
RECURSIVE GetNodeWalk(_, _, _, _)
GetNodeWalk(d, node, token, i) ==
  IF i > Len(token) \/ ~HasChar(d, node, token[i])
  THEN node
  ELSE GetNodeWalk(d, Append(node, token[i]), token, i + 1)

GetNode(d, token) == GetNodeWalk(d, <<>>, token, 1)

\* [head + token for token in B] : a list is kept as the bag of its
\* elements, the order of the keys of a dict not being part of the model
Prefixed(head, B) ==
  [x \in {head \o s : s \in DOMAIN B} |-> B[SubSeq(x, Len(head) + 1, Len(x))]]

\* the character keys of the node
Keys(d, node) ==
  {q[Len(q)] : q \in {x \in d.child : SubSeq(x, 1, Len(x) - 1) = node}}

\* ExtensionsTrie._collect_tokens : [""] when the node bears the termination
\* key, extended by the tokens collected below each character key, each
\* with that character in front
RECURSIVE CollectTokens(_, _), CollectKeys(_, _, _)
CollectTokens(d, node) ==
  (IF IsTerminal(d, node) THEN SetToBag({<<>>}) ELSE EmptyBag)
    (+) CollectKeys(d, node, Keys(d, node))

CollectKeys(d, node, keys) ==
  IF keys = {} THEN EmptyBag
  ELSE LET token == CHOOSE c \in keys : TRUE
       IN Prefixed(<<token>>, CollectTokens(d, Append(node, token)))
            (+) CollectKeys(d, node, keys \ {token})

\* ExtensionsTrie.extensions
ExtensionsOp(d, prefix) == Prefixed(prefix, CollectTokens(d, GetNode(d, prefix)))

(* ------------------- _insert_one_token_to_ordered_list ---------------- *)

\* ord(c) for the characters of the alphabet
Ord(c) == IF c = "a" THEN 97 ELSE 98

\* s < t on Python strings: lexicographic on the code points
RECURSIVE StrLess(_, _)
StrLess(s, t) ==
  IF t = <<>> THEN FALSE
  ELSE IF s = <<>> THEN TRUE
  ELSE IF Ord(Head(s)) # Ord(Head(t)) THEN Ord(Head(s)) < Ord(Head(t))
  ELSE StrLess(Tail(s), Tail(t))

\* a binary search that steps over the elements equal to x
RECURSIVE BisectRight(_, _, _, _)
BisectRight(a, x, lo, hi) ==
  IF lo < hi
  THEN LET mid == (lo + hi) \div 2
       IN IF ~StrLess(x, a[mid + 1])
          THEN BisectRight(a, x, mid + 1, hi)
          ELSE BisectRight(a, x, lo, mid)
  ELSE lo

\* bisect.bisect_left(a, x) with lo = 0 and hi = len(a)
RECURSIVE BisectLeft(_, _, _, _)
BisectLeft(a, x, lo, hi) ==
  IF lo < hi
  THEN LET mid == (lo + hi) \div 2
       IN IF StrLess(a[mid + 1], x)
          THEN BisectLeft(a, x, mid + 1, hi)
          ELSE BisectLeft(a, x, lo, mid)
  ELSE lo

\* _insert_one_token_to_ordered_list
InsertOp(list, token) ==
  LET insertion_idx == BisectLeft(list, token, 0, Len(list))
  IN IF insertion_idx < Len(list) /\ list[insertion_idx + 1] = token
     THEN list
     ELSE SubSeq(list, 1, insertion_idx) \o <<token>>
            \o SubSeq(list, insertion_idx + 1, Len(list))

(* ------------------------------ actions ------------------------------- *)

\* the Trie object as a record
Self == [data |-> data, tokens |-> _tokens]

NoQuery ==
  /\ call' = "none"
  /\ arg' = <<>>
  /\ offsets' = <<>>
  /\ ret' = <<>>
  /\ raised' = FALSE

\* Trie() : __init__ without words
Init ==
  /\ data = EmptyData
  /\ _tokens = {}
  /\ call = "none"
  /\ arg = <<>>
  /\ offsets = <<>>
  /\ ret = <<>>
  /\ raised = FALSE
  /\ token_list = <<>>
  /\ new_token = <<>>
  /\ old_list = <<>>

\* trie.add(word); the trie is grown to MaxNodes nodes at most
Add(word) ==
  LET t == AddOp(Self, word)
  IN /\ call = "none"
     /\ Cardinality(t.data.child) <= MaxNodes
     /\ data' = t.data
     /\ _tokens' = t.tokens
     /\ NoQuery
     /\ UNCHANGED listVars

\* trie.update(ws), also the tail of Trie(ws); the trie is grown to MaxNodes
\* nodes at most
Update(ws) ==
  LET t == UpdateOp(Self, ws)
  IN /\ call = "none"
     /\ Cardinality(t.data.child) <= MaxNodes
     /\ data' = t.data
     /\ _tokens' = t.tokens
     /\ NoQuery
     /\ UNCHANGED listVars

\* trie.split(text)
Split(text) ==
  LET offs == SplitOffsets(data, text)
      r == CutText(text, offs)
  IN /\ call = "none"
     /\ call' = "split"
     /\ arg' = text
     /\ offsets' = offs
     /\ ret' = IF r.error THEN <<>> ELSE r.tokens
     /\ raised' = r.error
     /\ UNCHANGED <<data, _tokens>>
     /\ UNCHANGED listVars

\* trie.extensions(prefix)
Extensions(prefix) ==
  /\ call = "none"
  /\ call' = "extensions"
  /\ arg' = prefix
  /\ offsets' = <<>>
  /\ ret' = ExtensionsOp(data, prefix)
  /\ raised' = FALSE
  /\ UNCHANGED <<data, _tokens>>
  /\ UNCHANGED listVars

\* the caller drops the result it holds
Return ==
  /\ call # "none"
  /\ NoQuery
  /\ UNCHANGED <<data, _tokens>>
  /\ UNCHANGED listVars

Next ==
  \/ \E word \in Words : Add(word)
  \/ \E ws \in UpdateArgs : Update(ws)
  \/ \E text \in Texts : Split(text)
  \/ \E prefix \in Prefixes : Extensions(prefix)
  \/ Return

Spec == Init /\ [][Next]_vars

\* _insert_one_token_to_ordered_list(token_list, token); the list is grown
\* to MaxListLen elements at most
Insert(token) ==
  LET l == InsertOp(token_list, token)
  IN /\ Len(l) <= MaxListLen
     /\ token_list' = l
     /\ new_token' = token
     /\ old_list' = token_list
     /\ call' = "insert"
     /\ UNCHANGED <<data, _tokens, arg, offsets, ret, raised>>

NextList == \E token \in ListTokens : Insert(token)

SpecList == Init /\ [][NextList]_vars
(* ----------------------- vocabulary of the claims --------------------- *)

\* the word w occurs in text at the 0-based offset p
OccursAt(w, text, p) ==
  /\ p + Len(w) <= Len(text)
  /\ Slice(text, p, p + Len(w)) = w

\* the occurrences (w, p) of inserted words in the text of the last split
Occurrences ==
  {o \in _tokens \X (0..Len(arg)) : OccursAt(o[1], arg, o[2])}

\* the accepted matches: offsets is <<0, start_1, end_1, start_2, end_2, ...>>
PairIds == 1..((Len(offsets) - 1) \div 2)

PairStart(k) == offsets[2 * k]

PairEnd(k) == offsets[2 * k + 1]

RECURSIVE Concat(_)
Concat(frags) ==
  IF frags = <<>> THEN <<>> ELSE Head(frags) \o Concat(Tail(frags))

\* the offsets at which a fragment of the list begins or ends
Boundaries(frags) ==
  {Len(Concat(SubSeq(frags, 1, k))) : k \in 0..Len(frags)}

\* s is a prefix of w
IsPrefix(s, w) == Len(s) <= Len(w) /\ SubSeq(w, 1, Len(s)) = s

(* ------------------------------- claims ------------------------------- *)

\* C1: split returns (it does not raise) a list of non-empty fragments whose
\* concatenation in order is the text, for every vocabulary and text.
C1_Concatenation ==
  call = "split" =>
    /\ ~raised
    /\ Concat(ret) = arg
    /\ \A i \in 1..Len(ret) : ret[i] # <<>>

\* C1 witness: a split with a match that begins at offset 0 followed at once
\* by a second match, and text left over after it.
C1_Witness ==
  /\ call = "split"
  /\ Len(offsets) >= 5
  /\ PairStart(1) = 0
  /\ PairEnd(1) > 0
  /\ PairStart(2) = PairEnd(1)
  /\ PairEnd(2) < Len(arg)
  /\ Len(ret) = 3

\* C2: an occurrence of an inserted word that no other occurrence of an
\* inserted word overlaps is returned as a fragment of its own: its two ends
\* are fragment boundaries and no boundary lies between them.
C2_ExactIsolation ==
  call = "split" =>
    \A o \in Occurrences :
      LET p == o[2]
          q == o[2] + Len(o[1])
      IN (\A o2 \in Occurrences :
            o2 # o => ~(o2[2] < q /\ p < o2[2] + Len(o2[1])))
         => /\ p \in Boundaries(ret)
            /\ q \in Boundaries(ret)
            /\ \A b \in Boundaries(ret) : ~(p < b /\ b < q)

\* C3: every accepted match (start, end) cuts an inserted word out of the
\* text, and the fragments returned are the text cut at the accepted offsets.
C3_MatchesAreWords ==
  call = "split" =>
    /\ \A k \in PairIds : Slice(arg, PairStart(k), PairEnd(k)) \in _tokens
    /\ \A k \in PairIds :
         PairStart(k) < PairEnd(k) =>
           {PairStart(k), PairEnd(k)} \subseteq Boundaries(ret)

\* the vocabulary and text of the longest-match example
ExtraId1 == <<"e", "x", "t", "r", "a", "_", "i", "d", "_", "1">>

ExtraId100 == ExtraId1 \o <<"0", "0">>

ExtraIdTrie == UpdateOp(EmptyTrie, <<ExtraId1, ExtraId100>>)

ExtraIdSplit == SplitOp(ExtraIdTrie.data, <<"a", " ">> \o ExtraId100 \o <<" ", "b">>)

\* C4: no inserted word longer than an accepted match occurs in the text at
\* the offset where that match starts; and with extra_id_1 and extra_id_100
\* inserted, 'a extra_id_100 b' is split into 'a ', 'extra_id_100', ' b'.
C4_LongestMatch ==
  /\ call = "split" =>
       \A k \in PairIds :
         ~\E w \in _tokens :
            /\ Len(w) > PairEnd(k) - PairStart(k)
            /\ OccursAt(w, arg, PairStart(k))
  /\ ~ExtraIdSplit.error
  /\ ExtraIdSplit.tokens = << <<"a", " ">>, ExtraId100, <<" ", "b">> >>

\* C4 witness: a match was accepted where a shorter inserted word occurs at
\* the same offset.
C4_Witness ==
  /\ call = "split"
  /\ \E k \in PairIds :
       /\ Slice(arg, PairStart(k), PairEnd(k)) \in _tokens
       /\ \E w \in _tokens :
            /\ Len(w) < PairEnd(k) - PairStart(k)
            /\ OccursAt(w, arg, PairStart(k))

\* C5: a non-empty text in which no inserted word occurs comes back as the
\* single fragment [text], the empty vocabulary included.
C5_PassThrough ==
  (call = "split" /\ arg # <<>> /\ Occurrences = {}) => ret = <<arg>>

\* C5 witness: a non-empty vocabulary, a text that holds the beginning of an
\* inserted word up to its end but no inserted word, returned whole.
C5_Witness ==
  /\ call = "split"
  /\ Occurrences = {}
  /\ Len(arg) >= 2
  /\ \E w \in _tokens : arg[Len(arg)] = w[1]
  /\ ret = <<arg>>

\* C5 witness of the empty vocabulary.
C5_WitnessEmpty == call = "split" /\ _tokens = {} /\ Len(arg) >= 2 /\ ret = <<arg>>
\* C6: extensions(prefix), as a set, is the set of inserted words that start
\* with prefix, and no word is returned twice, also for the empty prefix and
\* for a prefix that leaves the trie partway.
C6_ExtensionsCorrect ==
  call = "extensions" =>
    /\ BagToSet(ret) = {w \in _tokens : IsPrefix(arg, w)}
    /\ \A w \in BagToSet(ret) : CopiesIn(w, ret) = 1

\* C7: after add(w), adding w again leaves the node tree and the word set
\* as they are, for every reachable trie and every word.
C7_IdempotentAdd ==
  call = "none" =>
    \A w \in Words :
      LET once == AddOp(Self, w)
      IN AddOp(once, w) = once

\* C7 witness: a trie of two words of which one, a word of several
\* characters that shares its first node with the other, is added again.
C7_Witness ==
  /\ call = "none"
  /\ \E w \in _tokens, v \in _tokens :
       /\ v # w
       /\ Len(w) >= 2
       /\ v[1] = w[1]
       /\ AddOp(Self, w) = Self

\* walking the node tree from the root by the characters of w ends in a
\* node that bears the termination key
WalkEndsTerminal(d, w) ==
  /\ \A k \in 1..Len(w) : HasChar(d, SubSeq(w, 1, k - 1), w[k])
  /\ IsTerminal(d, w)

\* C8: a string is in the word set exactly when the walk by its characters
\* ends in a node that bears the termination key; the empty string is in
\* neither.
C8_SetTreeAgreement ==
  \A w \in Words \cup _tokens \cup DOMAIN data.term :
    w \in _tokens <=> WalkEndsTerminal(data, w)

\* C8 witness: two inserted words, one a proper prefix of the other, so that
\* an inner node bears the termination key.
C8_Witness ==
  \E w \in _tokens, v \in _tokens :
    /\ w # v
    /\ IsPrefix(w, v)
    /\ WalkEndsTerminal(data, w)
    /\ WalkEndsTerminal(data, v)

\* the list is strictly increasing: sorted and free of duplicates
StrictlySorted(list) ==
  \A i \in 1..(Len(list) - 1) : StrLess(list[i], list[i + 1])

Elements(list) == {list[i] : i \in 1..Len(list)}

\* C9: the insertion into a sorted duplicate-free list leaves the list
\* sorted and duplicate-free, with the old elements and the token as its
\* elements, and leaves it unchanged when the token was in it.
C9_SortedInsert ==
  (call = "insert" /\ StrictlySorted(old_list)) =>
    /\ StrictlySorted(token_list)
    /\ Elements(token_list) = Elements(old_list) \cup {new_token}
    /\ (new_token \in Elements(old_list) => token_list = old_list)

\* C9 witness of an insertion between two elements.
C9_Witness ==
  /\ call = "insert"
  /\ StrictlySorted(old_list)
  /\ Len(old_list) >= 2
  /\ Len(token_list) = Len(old_list) + 1
  /\ \E i \in 2..(Len(token_list) - 1) : token_list[i] = new_token

\* C9 witness of a token that was in the list already.
C9_WitnessPresent ==
  /\ call = "insert"
  /\ Len(old_list) >= 2
  /\ new_token \in Elements(old_list)
  /\ token_list = old_list

\* the vocabulary and text of the earliest-start example
Cls == <<"[", "C", "L", "S", "]">>

ClsTrie == UpdateOp(EmptyTrie, <<Cls, <<"L">>>>)

ClsSplit == SplitOp(ClsTrie.data, Cls)

\* C10: between the end of the previous accepted match (0 when there is
\* none) and the start of an accepted match no inserted word begins in the
\* text; and with '[CLS]' and 'L' inserted, '[CLS]' is matched, not 'L'.
C10_EarliestStart ==
  /\ call = "split" =>
       \A k \in PairIds :
         LET e0 == IF k = 1 THEN 0 ELSE PairEnd(k - 1)
         IN ~\E o \in Occurrences : e0 <= o[2] /\ o[2] < PairStart(k)
  /\ ~ClsSplit.error
  /\ ClsSplit.tokens = <<Cls>>

\* C10 witness: an accepted match that is an inserted word and inside which,
\* at a later offset, another inserted word occurs.
C10_Witness ==
  /\ call = "split"
  /\ \E k \in PairIds :
       /\ Slice(arg, PairStart(k), PairEnd(k)) \in _tokens
       /\ \E o \in Occurrences :
            /\ PairStart(k) < o[2]
            /\ o[2] + Len(o[1]) < PairEnd(k)
\* the list cut_text walks: offsets with len(text) appended
CutOffsets == Append(offsets, Len(arg))

\* C11: the offsets split hands to cut_text never decrease and never exceed
\* len(text): every accepted pair has start <= end and starts at or after
\* the end of the pair before it; so cut_text never meets start > end and
\* split returns without raising.
C11_MonotoneOffsets ==
  call = "split" =>
    /\ \A i \in 1..(Len(CutOffsets) - 1) : CutOffsets[i] <= CutOffsets[i + 1]
    /\ \A i \in 1..Len(CutOffsets) : 0 <= CutOffsets[i] /\ CutOffsets[i] <= Len(arg)
    /\ \A k \in PairIds :
         /\ PairStart(k) <= PairEnd(k)
         /\ k > 1 => PairEnd(k - 1) <= PairStart(k)
    /\ ~raised

\* C11 witness: two accepted pairs, the first found by a lookahead that ran
\* past a character which is itself the first character of an inserted
\* word, so that skip kept a state from being opened inside the match.
C11_Witness ==
  /\ call = "split"
  /\ ~raised
  /\ Len(offsets) >= 5
  /\ PairEnd(1) - PairStart(1) >= 2
  /\ \E p \in (PairStart(1) + 1)..(PairEnd(1) - 1) :
       HasChar(data, <<>>, CharAt(arg, p))
  /\ PairStart(2) < PairEnd(2)
====
